---- MODULE Spec2Model ----
(***************************************************************************)
(* Model of notebooks/scraping_101.py: the HERMES restaurant collector.    *)
(* One run of collect_hermes_database: the paginated area searches, the    *)
(* merge by place_id, the enrichment by detail calls and the flattening    *)
(* into the restaurant and review tables.  The external Places API is the  *)
(* environment: every response is a nondeterministic choice.               *)
(***************************************************************************)
EXTENDS Integers, Sequences, FiniteSets

\* ---------------------------------------------------------------- bounds
NumAreas == 2      \* anchor points searched (search_points has 9 entries)
MaxPages == 3      \* pages the API serves for one area search
MaxBatch == 2      \* stubs in one page
MaxStubs == 3      \* stubs the API returns over the whole run
MaxReviews == 1    \* reviews in one detail payload
MaxCap == 2        \* largest value of max_restaurants tried

\* ------------------------------------------------------- data of the API
PlaceIds == {"X123", "Y456"}
Stubs == [place_id : PlaceIds]

SeqsUpTo(S, n) == UNION {[1..k -> S] : k \in 0..n}

Batches == SeqsUpTo(Stubs, MaxBatch)

\* data of one nearby-search response: status, results, next_page_token.
\* The code reads results and the token of an OK response only.
NearbyResponses ==
    [status : {"OK"}, results : Batches, token : BOOLEAN]
    \cup [status : {"ZERO_RESULTS", "REQUEST_DENIED"}, results : {<< >>}, token : {FALSE}]

\* a detail payload (data['result']) is a dict: the keys it has, and its reviews
ReviewSeq(n) == [i \in 1..n |-> i]
DetailResults ==
    {[keys |-> k, reviews |-> ReviewSeq(n)] :
        k \in SUBSET {"geometry", "reviews"}, n \in 0..MaxReviews}
WellFormedResult(d) == ("reviews" \notin d.keys) => d.reviews = << >>
EmptyDict == [keys |-> {}, reviews |-> << >>]

DetailResponses ==
    {[status |-> "OK", result |-> d] : d \in {x \in DetailResults : WellFormedResult(x)}}
    \cup {[status |-> "NOT_FOUND", result |-> EmptyDict]}

\* max_restaurants: {} is None, {c} is the integer c
Caps == {{}} \cup {{c} : c \in 0..MaxCap}

VARIABLES
    pc,                  \* position of the run
    area,                \* index into search_points of the area being searched
    pages,               \* responses received by the current get_restaurants_in_area call
    area_restaurants,    \* all_restaurants of get_restaurants_in_area
    page_delays,         \* time.sleep(2) calls of the current area search
    all_restaurants,     \* all_restaurants of collect_barcelona_restaurants, then its result
    seen_place_ids,
    areas_log,           \* per finished area: its result, whether its last status was OK, the two counts printed
    cooldowns,           \* time.sleep(3) calls
    max_restaurants,
    restaurants,         \* the list enrich_with_details_and_reviews iterates
    idx,                 \* 1-based position in restaurants
    enriched_data,
    detail_log,          \* detail calls issued: place_id, status, payload
    throttles,           \* time.sleep(0.5) calls
    df_restaurants,
    df_reviews

vars == <<pc, area, pages, area_restaurants, page_delays, all_restaurants,
          seen_place_ids, areas_log, cooldowns, max_restaurants, restaurants,
          idx, enriched_data, detail_log, throttles, df_restaurants, df_reviews>>

searchVars == <<area, pages, area_restaurants, page_delays, all_restaurants,
                seen_place_ids, areas_log, cooldowns>>
enrichVars == <<max_restaurants, restaurants, idx, enriched_data, detail_log, throttles>>
frameVars == <<df_restaurants, df_reviews>>

\* ---------------------------------------------------------------- helpers
Min(a, b) == IF a < b THEN a ELSE b
Max(a, b) == IF a > b THEN a ELSE b

Ids(s) == [i \in 1..Len(s) |-> s[i].place_id]
Range(s) == {s[i] : i \in 1..Len(s)}

RECURSIVE Concat(_)
Concat(ss) == IF ss = << >> THEN << >> ELSE Head(ss) \o Concat(Tail(ss))

\* the stubs the API has returned so far in this run, in order
Returned == Concat([k \in 1..Len(areas_log) |-> areas_log[k].restaurants]) \o area_restaurants

Init ==
    /\ pc = "page"
    /\ area = 1
    /\ pages = << >>
    /\ area_restaurants = << >>
    /\ page_delays = 0
    /\ all_restaurants = << >>
    /\ seen_place_ids = {}
    /\ areas_log = << >>
    /\ cooldowns = 0
    /\ max_restaurants = {}
    /\ restaurants = << >>
    /\ idx = 1
    /\ enriched_data = << >>
    /\ detail_log = << >>
    /\ throttles = 0
    /\ df_restaurants = << >>
    /\ df_reviews = << >>

\* The log of responses and the count of delays of one area search observe its
\* first MaxPages pages; under Spec no area search is longer than that.
Logged(log, resp) == IF Len(log) < MaxPages THEN Append(log, resp) ELSE log
Counted(n) == IF n < MaxPages THEN n + 1 ELSE n

\* a merge that puts the new entries in front
ExtendFront(list, more) == more \o list

\* list.extend
Extend(list, more) == list \o more

\* ------------------------------------------------ get_restaurants_in_area
\* a search in which a non-OK status raises instead of ending the area
SearchPageRaises(resp) ==
    /\ pc = "page"
    /\ pages' = Logged(pages, resp)
    /\ IF resp.status # "OK"
       THEN /\ area_restaurants' = area_restaurants
            /\ pc' = "fatal"
       ELSE /\ area_restaurants' = Extend(area_restaurants, resp.results)
            /\ pc' = IF resp.token THEN "page_sleep" ELSE "merge"
    /\ UNCHANGED <<area, page_delays, all_restaurants, seen_place_ids, areas_log, cooldowns>>
    /\ UNCHANGED enrichVars
    /\ UNCHANGED frameVars

\* one pass of the while loop up to the sleep: request, status test, extend, token test
SearchPage(resp) ==
    /\ pc = "page"
    /\ pages' = Logged(pages, resp)
    /\ IF resp.status # "OK"
       THEN /\ area_restaurants' = area_restaurants
            /\ pc' = "merge"
       ELSE /\ area_restaurants' = Extend(area_restaurants, resp.results)
            /\ pc' = IF resp.token THEN "page_sleep" ELSE "merge"
    /\ UNCHANGED <<area, page_delays, all_restaurants, seen_place_ids, areas_log, cooldowns>>
    /\ UNCHANGED enrichVars
    /\ UNCHANGED frameVars

\* the API serves at most MaxPages pages per area and MaxStubs stubs per run
AreaRequest ==
    \E resp \in NearbyResponses :
        /\ Len(pages) < MaxPages
        /\ resp.token => Len(pages) + 1 < MaxPages
        /\ Len(Returned) + Len(resp.results) <= MaxStubs
        /\ SearchPage(resp)

\* an API that never stops handing out continuation tokens: any response on any
\* page (still at most MaxStubs stubs per run, so that the state space is finite)
AreaRequestUnbounded ==
    \E resp \in NearbyResponses :
        /\ Len(Returned) + Len(resp.results) <= MaxStubs
        /\ SearchPage(resp)

\* a follow-up request issued without the wait
PageSleepNoDelay ==
    /\ pc = "page_sleep"
    /\ pc' = "page"
    /\ UNCHANGED searchVars
    /\ UNCHANGED enrichVars
    /\ UNCHANGED frameVars

\* time.sleep(2) and the switch to the page token, then back to the loop head
PageSleep ==
    /\ pc = "page_sleep"
    /\ page_delays' = Counted(page_delays)
    /\ pc' = "page"
    /\ UNCHANGED <<area, pages, area_restaurants, all_restaurants, seen_place_ids,
                   areas_log, cooldowns>>
    /\ UNCHANGED enrichVars
    /\ UNCHANGED frameVars

\* ------------------------------------------- collect_barcelona_restaurants
\* a merge that keeps every stub, seen or not
DedupLoopKeepAll(rests, seen, new) ==
    [new_restaurants |-> new \o rests,
     seen |-> seen \cup {rests[i].place_id : i \in 1..Len(rests)}]

\* the "Remove duplicates" loop over one area's result
RECURSIVE DedupLoop(_, _, _)
DedupLoop(rests, seen, new) ==
    IF rests = << >>
    THEN [new_restaurants |-> new, seen |-> seen]
    ELSE LET rest == Head(rests) IN
         IF rest.place_id \notin seen
         THEN DedupLoop(Tail(rests), seen \cup {rest.place_id}, Append(new, rest))
         ELSE DedupLoop(Tail(rests), seen, new)

\* a report that prints the size of the merged list twice
AreaReportTotalTwice(new_restaurants, merged) ==
    [new |-> Len(merged), total |-> Len(merged)]

\* the two counts printed after an area: new restaurants, total unique
AreaReport(new_restaurants, merged) ==
    [new |-> Len(new_restaurants), total |-> Len(merged)]

\* body of the for loop after the area search returned: dedup, extend, the two
\* prints, the cool-down; then the next search point or the return
MergeArea ==
    /\ pc = "merge"
    /\ LET d == DedupLoop(area_restaurants, seen_place_ids, << >>)
           merged == Extend(all_restaurants, d.new_restaurants)
       IN /\ seen_place_ids' = d.seen
          /\ all_restaurants' = merged
          /\ areas_log' = Append(areas_log,
                 [restaurants |-> area_restaurants,
                  ok |-> pages[Len(pages)].status = "OK",
                  report |-> AreaReport(d.new_restaurants, merged)])
    /\ cooldowns' = cooldowns + 1
    /\ pages' = << >>
    /\ area_restaurants' = << >>
    /\ page_delays' = 0
    /\ IF area < NumAreas
       THEN area' = area + 1 /\ pc' = "page"
       ELSE area' = area /\ pc' = "collected"
    /\ UNCHANGED enrichVars
    /\ UNCHANGED frameVars

\* ----------------------------------------- enrich_with_details_and_reviews
\* truth value of max_restaurants in "if max_restaurants:"
CapTruthy(m) == m # {} /\ m # {0}

\* restaurants[:c]
PySlice(s, c) ==
    IF c >= 0 THEN SubSeq(s, 1, Min(c, Len(s))) ELSE SubSeq(s, 1, Max(Len(s) + c, 0))

Truncate(s, m) == IF CapTruthy(m) THEN PySlice(s, CHOOSE c \in m : TRUE) ELSE s

\* collect_barcelona_restaurants returns all_restaurants (its locals and the log
\* of its searches end here); enrich_with_details_and_reviews is entered with a
\* cap, truncates, and reaches the head of its for loop
StartEnrich ==
    /\ pc = "collected"
    /\ \E m \in Caps :
        /\ max_restaurants' = m
        /\ restaurants' = Truncate(all_restaurants, m)
        /\ pc' = IF Truncate(all_restaurants, m) = << >> THEN "enriched" ELSE "detail"
    /\ idx' = 1
    /\ enriched_data' = << >>
    /\ detail_log' = << >>
    /\ throttles' = 0
    /\ seen_place_ids' = {}
    /\ areas_log' = << >>
    /\ UNCHANGED <<area, pages, area_restaurants, page_delays, all_restaurants, cooldowns>>
    /\ UNCHANGED frameVars

\* get_restaurant_details: the payload of an OK response, else None ({})
get_restaurant_details(resp) == IF resp.status = "OK" THEN {resp.result} ELSE {}

\* "if details:" -- None and the empty dict are both false
DetailsTruthy(details) == \E d \in details : d.keys # {}

\* the enriched dict; details['geometry']['location'] must exist to build it
HasCoords(d) == "geometry" \in d.keys
Enriched(restaurant, d) ==
    [place_id |-> restaurant.place_id,
     reviews |-> IF "reviews" \in d.keys THEN d.reviews ELSE << >>]

\* one pass of the for loop up to the sleep: the detail call and the merge
EnrichOne(resp) ==
    LET restaurant == restaurants[idx]
        details == get_restaurant_details(resp)
    IN /\ detail_log' = Append(detail_log,
              [place_id |-> restaurant.place_id, status |-> resp.status,
               result |-> resp.result])
       /\ IF DetailsTruthy(details)
          THEN LET d == CHOOSE x \in details : TRUE IN
               IF HasCoords(d)
               THEN /\ enriched_data' = Append(enriched_data, Enriched(restaurant, d))
                    /\ pc' = "throttle"
               ELSE /\ enriched_data' = enriched_data     \* KeyError: the run aborts
                    /\ pc' = "fatal"
          ELSE /\ enriched_data' = enriched_data
               /\ pc' = "throttle"

DetailCall ==
    /\ pc = "detail"
    /\ \E resp \in DetailResponses : EnrichOne(resp)
    /\ UNCHANGED <<max_restaurants, restaurants, idx, throttles>>
    /\ UNCHANGED searchVars
    /\ UNCHANGED frameVars

\* a loop that moves on without the sleep
ThrottleNoSleep ==
    /\ pc = "throttle"
    /\ idx' = idx + 1
    /\ pc' = IF idx + 1 > Len(restaurants) THEN "enriched" ELSE "detail"
    /\ UNCHANGED <<max_restaurants, restaurants, enriched_data, detail_log, throttles>>
    /\ UNCHANGED searchVars
    /\ UNCHANGED frameVars

\* time.sleep(0.5), then the next restaurant or the return of enriched_data
Throttle ==
    /\ pc = "throttle"
    /\ throttles' = throttles + 1
    /\ idx' = idx + 1
    /\ pc' = IF idx + 1 > Len(restaurants) THEN "enriched" ELSE "detail"
    /\ UNCHANGED <<max_restaurants, restaurants, enriched_data, detail_log>>
    /\ UNCHANGED searchVars
    /\ UNCHANGED frameVars

\* ------------------------------------------------------- create_dataframe
RestaurantRow(rest) ==
    [place_id |-> rest.place_id, num_reviews_collected |-> Len(rest.reviews)]
ReviewRows(rest) ==
    [i \in 1..Len(rest.reviews) |-> [place_id |-> rest.place_id, time |-> rest.reviews[i]]]

\* a flattening that builds the tables and never returns
CreateDataframeNoReturn ==
    /\ pc = "enriched"
    /\ df_restaurants' = [i \in 1..Len(enriched_data) |-> RestaurantRow(enriched_data[i])]
    /\ df_reviews' = Concat([i \in 1..Len(enriched_data) |-> ReviewRows(enriched_data[i])])
    /\ pc' = "enriched"
    /\ UNCHANGED searchVars
    /\ UNCHANGED enrichVars

CreateDataframe ==
    /\ pc = "enriched"
    /\ df_restaurants' = [i \in 1..Len(enriched_data) |-> RestaurantRow(enriched_data[i])]
    /\ df_reviews' = Concat([i \in 1..Len(enriched_data) |-> ReviewRows(enriched_data[i])])
    /\ pc' = "done"
    /\ UNCHANGED searchVars
    /\ UNCHANGED enrichVars

\* ---------------------------------------------------------- specification
Next ==
    \/ AreaRequest
    \/ PageSleep
    \/ MergeArea
    \/ StartEnrich
    \/ DetailCall
    \/ Throttle
    \/ CreateDataframe

Spec == Init /\ [][Next]_vars

\* the same run against the API that may hand out tokens forever; the program is
\* sequential and never waits for anything but its own sleeps, so it always takes
\* its next step
NextLive ==
    \/ AreaRequestUnbounded
    \/ PageSleep
    \/ MergeArea
    \/ StartEnrich
    \/ DetailCall
    \/ Throttle
    \/ CreateDataframe

LiveSpec == Init /\ [][NextLive]_vars /\ WF_vars(NextLive)

Terminated == pc \in {"done", "fatal"}

\* ================================================================= claims
CollectPcs == {"page", "page_sleep", "merge", "collected"}
SearchPcs == {"page", "page_sleep", "merge"}

\* the stubs returned by the areas already merged, in anchor-list order
Processed == Concat([k \in 1..Len(areas_log) |-> areas_log[k].restaurants])

FirstIndex(s, x) == CHOOSE i \in 1..Len(s) : s[i] = x /\ \A j \in 1..(i - 1) : s[j] # x
NoRepeats(s) == \A i, j \in 1..Len(s) : i # j => s[i] # s[j]

\* C1: after any number of merged areas, the merged list holds every place_id
\* returned by those areas exactly once, in the order of first appearance
C1_MergedIsFirstSeenOrder ==
    pc \in CollectPcs =>
        LET ret == Ids(Processed)
            m == Ids(all_restaurants)
        IN /\ Range(m) = Range(ret)
           /\ NoRepeats(m)
           /\ \A i, j \in 1..Len(m) : i < j => FirstIndex(ret, m[i]) < FirstIndex(ret, m[j])

\* two areas merged, one identifier returned by both, two distinct identifiers in all
C1_Witness ==
    /\ pc = "collected"
    /\ Len(areas_log) >= 2
    /\ \E x \in PlaceIds :
          /\ x \in Range(Ids(areas_log[1].restaurants))
          /\ x \in Range(Ids(areas_log[2].restaurants))
    /\ Len(all_restaurants) = 2
    /\ Len(Processed) > 2

\* C2: in the output of a completed run every review row's place_id is the
\* place_id of exactly one restaurant row, and no two restaurant rows share one
C2_ReviewRowsHaveOneParent ==
    pc = "done" =>
        /\ NoRepeats(Ids(df_restaurants))
        /\ \A i \in 1..Len(df_reviews) :
              Cardinality({j \in 1..Len(df_restaurants) :
                              df_restaurants[j].place_id = df_reviews[i].place_id}) = 1

\* a completed run with two restaurant rows and a review row for each
C2_Witness ==
    /\ pc = "done"
    /\ Len(df_restaurants) = 2
    /\ \A j \in 1..2 : \E i \in 1..Len(df_reviews) :
          df_reviews[i].place_id = df_restaurants[j].place_id

TokenPage(r) == r.status = "OK" /\ r.token
PageResults(n) == Concat([i \in 1..n |-> pages[i].results])

\* C3: a request is issued only when every earlier response carried a token and
\* each was followed by one delay; a delay happens only after a token; a search of
\* k token pages and one last OK page makes k+1 requests and k delays and returns
\* the batches concatenated in page order
C3_OneDelayPerFollowUpPage ==
    /\ pc = "page" =>
          /\ page_delays = Len(pages)
          /\ \A i \in 1..Len(pages) : TokenPage(pages[i])
    /\ pc = "page_sleep" =>
          /\ Len(pages) >= 1
          /\ page_delays = Len(pages) - 1
          /\ TokenPage(pages[Len(pages)])
    /\ (pc = "merge" /\ pages[Len(pages)].status = "OK") =>
          LET k == Len(pages) - 1
          IN /\ \A i \in 1..k : TokenPage(pages[i])
             /\ ~pages[k + 1].token
             /\ page_delays = k
             /\ area_restaurants = PageResults(k + 1)

\* a page of 2 with a token, one delay, a page of 1 without: 3 stubs returned
C3_Witness ==
    /\ pc = "merge"
    /\ Len(pages) = 2
    /\ TokenPage(pages[1]) /\ Len(pages[1].results) = 2
    /\ pages[2].status = "OK" /\ ~pages[2].token /\ Len(pages[2].results) = 1
    /\ page_delays = 1
    /\ Len(area_restaurants) = 3

CalledIds == Ids(detail_log)
Cap == CHOOSE c \in max_restaurants : TRUE

\* C4 (as claimed): with a cap c >= 0 the detail calls are those of the first
\* min(c, n) stubs, one each, in input order; without a cap, of all n stubs
C4_CapTruncatesToMin ==
    pc = "enriched" =>
        LET n == Len(all_restaurants)
            want == IF max_restaurants = {} THEN n ELSE Min(Cap, n)
        IN CalledIds = Ids(SubSeq(all_restaurants, 1, want))

Succeeded(e) == e.status = "OK"

\* C5 (as claimed): when enrichment returns, every stub had one detail call and
\* the records are those of the stubs whose call had a success status, in order
C5_RecordsAreSuccessfulStubs ==
    pc = "enriched" =>
        /\ CalledIds = Ids(restaurants)
        /\ Ids(enriched_data) = Ids(SelectSeq(detail_log, Succeeded))

\* C6 (as claimed): a success response whose payload has no geometry, the empty
\* payload included, aborts the run
C6_MissingGeometryIsFatal ==
    \A i \in 1..Len(detail_log) :
        (detail_log[i].status = "OK" /\ ~HasCoords(detail_log[i].result)) => pc = "fatal"

\* C7: a response with a status other than OK is the last response of its area
\* search, the search returns what the earlier pages gave, nothing is raised
\* while collecting, and every anchor point is still searched
C7_NonOkEndsAreaOnly ==
    /\ pc \in {"page", "page_sleep"} => \A i \in 1..Len(pages) : pages[i].status = "OK"
    /\ (pc = "merge" /\ pages[Len(pages)].status # "OK") =>
          /\ \A i \in 1..(Len(pages) - 1) : TokenPage(pages[i])
          /\ area_restaurants = PageResults(Len(pages) - 1)
    /\ pc \in SearchPcs => Len(areas_log) = area - 1
    /\ pc = "collected" => Len(areas_log) = NumAreas
    /\ pc = "fatal" => detail_log # << >>

\* the first area ends on a non-OK second page and keeps its first page; the
\* second area is searched and returns stubs
C7_Witness ==
    /\ pc = "collected"
    /\ ~areas_log[1].ok
    /\ areas_log[1].restaurants # << >>
    /\ areas_log[2].restaurants # << >>

AreaIds(k) == Range(Ids(areas_log[k].restaurants))
IdsBefore(k) == UNION {AreaIds(j) : j \in 1..(k - 1)}

\* C9: the new count printed for an area is the number of identifiers it returned
\* that no earlier area returned, the total printed is the number of distinct
\* identifiers returned so far, and that is the size of the seen set
C9_ReportsCountNewAndTotal ==
    pc \in CollectPcs =>
        /\ \A k \in 1..Len(areas_log) :
              /\ areas_log[k].report.new = Cardinality(AreaIds(k) \ IdsBefore(k))
              /\ areas_log[k].report.total = Cardinality(IdsBefore(k + 1))
        /\ Cardinality(seen_place_ids) = Len(all_restaurants)
        /\ Len(areas_log) >= 1 =>
              areas_log[Len(areas_log)].report.total = Cardinality(seen_place_ids)

\* "X123" returned by two areas: 1 new for the first, 0 for the second, total 1
C9_Witness ==
    /\ Len(areas_log) >= 2
    /\ areas_log[1].restaurants = <<[place_id |-> "X123"]>>
    /\ areas_log[2].restaurants = <<[place_id |-> "X123"]>>
    /\ areas_log[1].report = [new |-> 1, total |-> 1]
    /\ areas_log[2].report = [new |-> 0, total |-> 1]

\* C10 (as claimed): whenever the next call is due or enrichment is over, there
\* have been as many delays as detail calls
C10_DelayAfterEveryCall ==
    pc \in {"detail", "enriched", "done", "fatal"} => throttles = Len(detail_log)

\* C10 (amended): one delay follows every detail call that does not abort the
\* run, before the next call; the call that aborts the run is followed by none
C10_DelayAfterEveryCallThatReturns ==
    /\ pc \in {"detail", "enriched", "done"} => throttles = Len(detail_log)
    /\ pc = "throttle" => throttles = Len(detail_log) - 1
    /\ pc = "fatal" =>
          /\ throttles = Len(detail_log) - 1
          /\ LET last == detail_log[Len(detail_log)]
             IN last.status = "OK" /\ last.result.keys # {} /\ ~HasCoords(last.result)

\* enrichment returned after a skipped call and a call that gave a record
C10_Witness ==
    /\ pc = "enriched"
    /\ Len(detail_log) = 2
    /\ \E i \in 1..2 : detail_log[i].status # "OK"
    /\ Len(enriched_data) = 1
    /\ throttles = 2

====
